---------------------------- MODULE Spec2Model ----------------------------
(***************************************************************************)
(* A model of ColorWallpaper.py: the colour argument parser, the CMYK      *)
(* conversion, the pixel-font text rasterizer, the badge layout and the    *)
(* canvas compositor with its output policy.                               *)
(*                                                                         *)
(* Text is a sequence of one-character strings.  Python floats are IEEE    *)
(* binary64 values, modelled exactly: a float is [m, e] with value         *)
(* m * 2^e, m a 53-bit natural kept as a sequence of 15-bit limbs (least   *)
(* significant first), or m = <<>> for 0.0; every operation rounds its     *)
(* exact result to nearest, ties to even.                                  *)
(***************************************************************************)
EXTENDS Integers, Sequences, FiniteSets, TLC

(***************************************************************************)
(* Naturals of arbitrary size                                              *)
(***************************************************************************)
LimbBits == 15
LimbBase == 2^LimbBits

Max2(a, b) == IF a >= b THEN a ELSE b
Min2(a, b) == IF a <= b THEN a ELSE b

Limb(a, i) == IF i <= Len(a) THEN a[i] ELSE 0

RECURSIVE BNorm(_)
BNorm(a) ==
    IF a = <<>> THEN a
    ELSE IF a[Len(a)] = 0 THEN BNorm(SubSeq(a, 1, Len(a) - 1))
    ELSE a

RECURSIVE BFromNat(_)
BFromNat(n) ==
    IF n = 0 THEN <<>> ELSE <<n % LimbBase>> \o BFromNat(n \div LimbBase)

RECURSIVE BToNat(_)
BToNat(a) ==
    IF a = <<>> THEN 0 ELSE a[1] + LimbBase * BToNat(Tail(a))

RECURSIVE BCmpFrom(_, _, _)
BCmpFrom(a, b, i) ==
    IF i = 0 THEN 0
    ELSE IF a[i] < b[i] THEN -1
    ELSE IF a[i] > b[i] THEN 1
    ELSE BCmpFrom(a, b, i - 1)

\* -1, 0, 1 as a < b, a = b, a > b
BCmp(a, b) ==
    IF Len(a) < Len(b) THEN -1
    ELSE IF Len(a) > Len(b) THEN 1
    ELSE BCmpFrom(a, b, Len(a))

RECURSIVE BAddFrom(_, _, _, _)
BAddFrom(a, b, i, c) ==
    IF i > Len(a) /\ i > Len(b)
    THEN (IF c = 0 THEN <<>> ELSE <<c>>)
    ELSE LET s == Limb(a, i) + Limb(b, i) + c
         IN  <<s % LimbBase>> \o BAddFrom(a, b, i + 1, s \div LimbBase)

BAdd(a, b) == BAddFrom(a, b, 1, 0)

RECURSIVE BSubFrom(_, _, _, _)
BSubFrom(a, b, i, c) ==
    IF i > Len(a) THEN <<>>
    ELSE LET s == a[i] - Limb(b, i) - c
         IN  IF s < 0
             THEN <<s + LimbBase>> \o BSubFrom(a, b, i + 1, 1)
             ELSE <<s>> \o BSubFrom(a, b, i + 1, 0)

\* a - b for a >= b
BSub(a, b) == BNorm(BSubFrom(a, b, 1, 0))

RECURSIVE BMulFrom(_, _, _, _)
BMulFrom(a, k, i, c) ==
    IF i > Len(a)
    THEN (IF c = 0 THEN <<>> ELSE <<c>>)
    ELSE LET s == a[i] * k + c
         IN  <<s % LimbBase>> \o BMulFrom(a, k, i + 1, s \div LimbBase)

\* a * k for 0 < k <= LimbBase
BMulSmall(a, k) == BMulFrom(a, k, 1, 0)

BShl(a, n) ==
    IF a = <<>> THEN a
    ELSE [i \in 1..(n \div LimbBits) |-> 0] \o BMulSmall(a, 2^(n % LimbBits))

BShr(a, n) ==
    LET w == n \div LimbBits
        b == n % LimbBits
        d == IF w >= Len(a) THEN <<>> ELSE SubSeq(a, w + 1, Len(a))
    IN  BNorm([i \in 1..Len(d) |->
                 (d[i] \div 2^b) + (Limb(d, i + 1) % 2^b) * 2^(LimbBits - b)])

RECURSIVE NatBitLen(_)
NatBitLen(n) == IF n = 0 THEN 0 ELSE 1 + NatBitLen(n \div 2)

BBitLen(a) ==
    IF a = <<>> THEN 0 ELSE LimbBits * (Len(a) - 1) + NatBitLen(a[Len(a)])

\* bit i (0 = least significant) of a
BBit(a, i) == (Limb(a, (i \div LimbBits) + 1) \div 2^(i % LimbBits)) % 2

BIsOdd(a) == a # <<>> /\ a[1] % 2 = 1

\* the largest t in lo..hi with d * t <= r (d * lo <= r is given)
RECURSIVE QDigit(_, _, _, _)
QDigit(r, d, lo, hi) ==
    IF lo = hi THEN lo
    ELSE LET mid == (lo + hi + 1) \div 2
         IN  IF BCmp(BMulSmall(d, mid), r) <= 0
             THEN QDigit(r, d, mid, hi)
             ELSE QDigit(r, d, lo, mid - 1)

\* schoolbook long division, one limb a step: limbs i..1 of n still to
\* bring down, q the quotient's limbs so far, r the remainder so far (< d)
RECURSIVE BDivLoop(_, _, _, _, _)

\* t is the quotient limb of r2 by d
BDivDigit(n, d, i, q, r2, t) ==
    IF t = 0
    THEN BDivLoop(n, d, i - 1, <<0>> \o q, r2)
    ELSE BDivLoop(n, d, i - 1, <<t>> \o q, BSub(r2, BMulSmall(d, t)))

\* r2 is the remainder so far with limb i of n brought down
BDivBring(n, d, i, q, r2) ==
    BDivDigit(n, d, i, q, r2, QDigit(r2, d, 0, LimbBase - 1))

BDivLoop(n, d, i, q, r) ==
    IF i = 0 THEN [q |-> BNorm(q), r |-> r]
    ELSE BDivBring(n, d, i, q, BNorm(<<n[i]>> \o r))

\* [q, r] with n = q * d + r, 0 <= r < d, for d > 0
BDivMod(n, d) == BDivLoop(n, d, Len(n), <<>>, <<>>)

(***************************************************************************)
(* IEEE-754 binary64 arithmetic on non-negative finite values              *)
(***************************************************************************)
Mant == 53

FZero == [m |-> <<>>, e |-> 0]

\* m1 * 2^(e + 1 - s1), m1 of Mant or (after a carry) Mant + 1 bits
FPack(m1, e, s1) ==
    IF BBitLen(m1) = Mant + 1
    THEN [m |-> BShr(m1, 1), e |-> e + 2 - s1]
    ELSE [m |-> m1, e |-> e + 1 - s1]

\* m the quotient without its guard bit, up when the guard bit rounds it up
FRoundUp(m, up, e, s1) == FPack(IF up THEN BAdd(m, <<1>>) ELSE m, e, s1)

\* q the quotient of Mant + 1 bits (the last one the guard bit), st whether
\* anything non-zero lies below it: round to nearest, ties to even
FRoundGuard(q, st, e, s1) ==
    FRoundUp(BShr(q, 1), BIsOdd(q) /\ (st \/ BIsOdd(BShr(q, 1))), e, s1)

\* qr the quotient and remainder of n * 2^s by d, of Mant + 1 or Mant + 2 bits
FRoundQuotient(qr, e, s) ==
    IF BBitLen(qr.q) = Mant + 2
    THEN FRoundGuard(BShr(qr.q, 1), qr.r # <<>> \/ BIsOdd(qr.q), e, s - 1)
    ELSE FRoundGuard(qr.q, qr.r # <<>>, e, s)

FRoundScaled(n, d, e, s) ==
    FRoundQuotient(BDivMod(IF s > 0 THEN BShl(n, s) ELSE n,
                           IF s < 0 THEN BShl(d, 0 - s) ELSE d), e, s)

\* the float nearest to (n / d) * 2^e (ties to even), n >= 0 and d > 0
FRound(n, d, e) ==
    IF n = <<>> THEN FZero
    ELSE FRoundScaled(n, d, e, Mant + 1 + BBitLen(d) - BBitLen(n))

FFromNat(n) == FRound(BFromNat(n), <<1>>, 0)

\* -1, 0, 1 as a < b, a = b, a > b
FCmp(a, b) ==
    IF a.m = <<>> \/ b.m = <<>>
    THEN (IF a.m = b.m THEN 0 ELSE IF a.m = <<>> THEN -1 ELSE 1)
    ELSE IF a.e < b.e THEN -1
    ELSE IF a.e > b.e THEN 1
    ELSE BCmp(a.m, b.m)

FMin(a, b) == IF FCmp(b, a) < 0 THEN b ELSE a

FSubAt(a, b, e) ==
    FRound(BSub(BShl(a.m, a.e - e), BShl(b.m, b.e - e)), <<1>>, e)

\* a - b for a >= b
FSub(a, b) == IF b.m = <<>> THEN a ELSE FSubAt(a, b, Min2(a.e, b.e))

\* a / b for b > 0
FDiv(a, b) == FRound(a.m, b.m, a.e - b.e)

\* a * k for a natural 0 < k <= LimbBase
FMulNat(a, k) == FRound(BMulSmall(a.m, k), <<1>>, a.e)

\* int(a): truncation towards zero
FTrunc(a) ==
    IF a.m = <<>> THEN 0
    ELSE IF a.e >= 0 THEN BToNat(BShl(a.m, a.e))
    ELSE BToNat(BShr(a.m, 0 - a.e))

(***************************************************************************)
(* Color.cmyk                                                              *)
(***************************************************************************)
FOne == FFromNat(1)

\* 1 - comp/255
Complement(comp) == FSub(FOne, FDiv(FFromNat(comp), FFromNat(255)))

\* int(comp*100)
Percent(f) == FTrunc(FMulNat(f, 100))

\* (comp - k) / (1.0 - k)
UnderColor(comp, k) == FDiv(FSub(comp, k), FSub(FOne, k))

cmykWithBlack(c, m, y, k) ==
    IF FCmp(k, FOne) = 0 THEN <<0, 0, 0, 100>>
    ELSE << Percent(UnderColor(c, k)), Percent(UnderColor(m, k)),
            Percent(UnderColor(y, k)), Percent(k) >>

\* k = min(c, m, y, 1)
cmykOfComplements(c, m, y) ==
    cmykWithBlack(c, m, y, FMin(FMin(FMin(c, m), y), FOne))

cmyk(rgb) ==
    cmykOfComplements(Complement(rgb[1]), Complement(rgb[2]),
                      Complement(rgb[3]))

(***************************************************************************)
(* State.  Each component of the program is explored by a specification of *)
(* its own; the variables of the other components stay at their idle       *)
(* values.                                                                 *)
(***************************************************************************)
VARIABLES
    rgb, cmykPc, cmykOut,                  \* Color.rgb and the result of Color.cmyk
    text, textPc, textImg,                 \* __generate_text: argument, position, result
    name, formats, decoPc, y, row, img,    \* __generate_decoration
    arg, argPc, parsed,                    \* get_options.color
    resArg, resolution, decorStatus, output, parentDir, yes, answer,
    imagePc, decor_size, offset            \* get_options.resolution, generate_image

cmykVars  == <<rgb, cmykPc, cmykOut>>
textVars  == <<text, textPc, textImg>>
decoVars  == <<name, formats, decoPc, y, row, img>>
argVars   == <<arg, argPc, parsed>>
imageVars == <<resArg, resolution, decorStatus, output, parentDir, yes, answer,
               imagePc, decor_size, offset>>
vars == <<cmykVars, textVars, decoVars, argVars, imageVars>>

CmykIdle  == rgb = <<0, 0, 0>> /\ cmykPc = "idle" /\ cmykOut = <<>>
TextIdle  == text = <<>> /\ textPc = "idle" /\ textImg = [status |-> "none"]
DecoIdle  == /\ name = <<>> /\ formats = <<>> /\ decoPc = "idle"
             /\ y = 0 /\ row = 0 /\ img = <<>>
ArgIdle   == arg = <<>> /\ argPc = "idle" /\ parsed = [status |-> "none"]
ImageIdle == /\ resArg = <<0, 0>> /\ resolution = <<0, 0>> /\ decorStatus = "ok"
             /\ output = "absent" /\ parentDir = FALSE /\ yes = FALSE
             /\ answer = <<>> /\ imagePc = "idle" /\ decor_size = 0
             /\ offset = <<0, 0>>

(***************************************************************************)
(* Color.cmyk, applied to colours drawn from Components                    *)
(***************************************************************************)
Components == {0, 5, 10, 51, 128, 204, 255}

CmykInit ==
    /\ rgb \in Components \X Components \X Components
    /\ cmykPc = "call" /\ cmykOut = <<>>
    /\ TextIdle /\ DecoIdle /\ ArgIdle /\ ImageIdle

CmykCall ==
    /\ cmykPc = "call"
    /\ cmykOut' = cmyk(rgb)
    /\ cmykPc' = "done"
    /\ UNCHANGED <<rgb, textVars, decoVars, argVars, imageVars>>

CmykNext == CmykCall

SpecCmyk == CmykInit /\ [][CmykNext]_vars

\* the percentages of k = min(1-r/255, 1-g/255, 1-b/255) and of (x-k)/(1-k)
\* in exact arithmetic, truncated: with mx the largest component,
\* k = (255-mx)/255 and (x-k)/(1-k) = (mx-comp)/mx
TruncatedCmyk(t) ==
    LET mx == Max2(Max2(t[1], t[2]), t[3])
    IN  IF mx = 0 THEN <<0, 0, 0, 100>>
        ELSE << (100 * (mx - t[1])) \div mx, (100 * (mx - t[2])) \div mx,
                (100 * (mx - t[3])) \div mx, (100 * (255 - mx)) \div 255 >>

\* C5: Color.cmyk returns (0,0,0,100) for black, (0,0,0,0) for white and
\* otherwise the truncated percentages of k = min(1-r/255, 1-g/255, 1-b/255)
\* and of (x-k)/(1-k), each within 0..100.
CmykIsTruncatedPercentages ==
    cmykPc = "done" =>
        /\ cmykOut = TruncatedCmyk(rgb)
        /\ \A i \in 1..4 : cmykOut[i] \in 0..100
        /\ rgb = <<0, 0, 0>> => cmykOut = <<0, 0, 0, 100>>
        /\ rgb = <<255, 255, 255>> => cmykOut = <<0, 0, 0, 0>>

(***************************************************************************)
(* The glyph table (data.font): one 8-row pixel map per character, the     *)
(* glyph's columns followed by one blank spacing column.                   *)
(***************************************************************************)
GlyphRows == 8

GlyphWidth(char) ==
    CASE char = " " -> 3
      [] char \in {"i", "l", "I", "1", ".", "!"} -> 1
      [] char \in {"M", "W", "m", "w", "#"} -> 7
      [] OTHER -> 5

font(char) ==
    [r \in 1..GlyphRows |->
        [c \in 1..(GlyphWidth(char) + 1) |->
            IF char # " " /\ c <= GlyphWidth(char) /\ r < GlyphRows
            THEN 1 ELSE 0]]

(***************************************************************************)
(* Wallpaper.__generate_text                                               *)
(***************************************************************************)
RECURSIVE SumLen(_)
SumLen(t) ==
    IF t = <<>> THEN 0 ELSE Len(font(Head(t))[1]) + SumLen(Tail(t))

\* TextLength with the trailing spacing column left in
TextLengthUntrimmed(t) == SumLen(t)

\* text_length = sum(len(font(char)[0]) for char in text) - 1
TextLength(t) == SumLen(t) - 1

\* the offset each character is painted at: offset += x + 1 after a
\* character, x the last column index of its last row
RECURSIVE Offsets(_, _)
Offsets(t, off) ==
    IF t = <<>> THEN <<>>
    ELSE <<off>> \o
         Offsets(Tail(t), off + (Len(font(Head(t))[GlyphRows]) - 1) + 1)

\* the pixels putpixel is called on for one character, 0-based (x, y)
GlyphPixels(char, off) ==
    LET pixel_map == font(char)
    IN  UNION { { <<off + (c - 1), r - 1>> :
                    c \in { c \in 1..Len(pixel_map[r]) : pixel_map[r][c] = 1 } }
                : r \in 1..Len(pixel_map) }

Painted(t) ==
    LET offs == Offsets(t, 0)
    IN  UNION { GlyphPixels(t[i], offs[i]) : i \in 1..Len(t) }

\* Image.new refuses a negative size; putpixel refuses a pixel off the image
generate_text(t) ==
    LET text_length == TextLength(t)
        pixels      == Painted(t)
    IN  IF text_length < 0
        THEN [status |-> "ValueError"]
        ELSE IF \E p \in pixels : p[1] >= text_length
        THEN [status |-> "IndexError"]
        ELSE [status |-> "ok", size |-> <<text_length, 8>>, pixels |-> pixels]

MaxTextLen == 4
TextChars == {"M", "i", " "}

Texts(n) == UNION { [1..k -> TextChars] : k \in 0..n }

TextInit ==
    /\ text \in Texts(MaxTextLen)
    /\ textPc = "call" /\ textImg = [status |-> "none"]
    /\ CmykIdle /\ DecoIdle /\ ArgIdle /\ ImageIdle

TextCall ==
    /\ textPc = "call"
    /\ textImg' = generate_text(text)
    /\ textPc' = "done"
    /\ UNCHANGED <<text, cmykVars, decoVars, argVars, imageVars>>

RECURSIVE SumGlyphWidth(_)
SumGlyphWidth(t) ==
    IF t = <<>> THEN 0 ELSE GlyphWidth(Head(t)) + SumGlyphWidth(Tail(t))

TextNext == TextCall

SpecText == TextInit /\ [][TextNext]_vars

\* C1: the bitmap of a non-empty text is 8 pixels high and as wide as the
\* sum of its characters' glyph widths plus one spacing pixel between
\* adjacent characters (and none after the last).
TextWidthIsGlyphsPlusSpacing ==
    (textPc = "done" /\ Len(text) > 0) =>
        /\ textImg.status = "ok"
        /\ textImg.size = <<SumGlyphWidth(text) + (Len(text) - 1), 8>>

TextWidthWitness ==
    /\ textPc = "done" /\ Len(text) = 3 /\ textImg.status = "ok"
    /\ text[1] # text[2]
    /\ textImg.size[1] = SumGlyphWidth(text) + 2

\* C2: rasterizing the empty string succeeds with a bitmap of width 0 and
\* height 8.
EmptyTextIsZeroWide ==
    (textPc = "done" /\ text = <<>>) =>
        textImg.status = "ok" /\ textImg.size = <<0, 8>>

(***************************************************************************)
(* Wallpaper.__generate_decoration                                         *)
(*                                                                         *)
(* img is the list of what has been drawn on the 128x128 badge, in order:  *)
(* the border, then one entry per alpha_composite call with the position   *)
(* it was given and the width of the bitmap.  A value's text               *)
(* (rows[key][1]) is a non-empty string of digits, spaces, '#' and hex     *)
(* letters whatever the colour; the entry of a value names its key.        *)
(***************************************************************************)
\* rows[key][0]
RowLabel(key) ==
    CASE key = "hex"   -> <<"H", "E", "X", " ">>
      [] key = "#hex"  -> <<"H", "E", "X", " ">>
      [] key = "rgb"   -> <<"R", "G", "B", " ">>
      [] key = "hsv"   -> <<"H", "S", "V", " ">>
      [] key = "hsl"   -> <<"H", "S", "L", " ">>
      [] key = "cmyk"  -> <<"C", "M", "Y", "K", " ">>
      [] key = "empty" -> <<" ">>

BadgeSize == 128
LeftMargin == 8
MaxNameWidth == 112
RowStep == 12

Drawn(kind, key, t, px, py, w) ==
    [kind |-> kind, key |-> key, text |-> t, x |-> px, y |-> py, w |-> w]

\* ImageDraw.Draw(img).rectangle((0, 0, 127, 127), outline=..., width=3)
Border == Drawn("border", "", <<>>, 0, 0, BadgeSize)

\* the index of the last space of t, 0 when it has none
RECURSIVE LastSpace(_)
LastSpace(t) ==
    IF t = <<>> THEN 0
    ELSE IF t[Len(t)] = " " THEN Len(t)
    ELSE LastSpace(SubSeq(t, 1, Len(t) - 1))

\* name.rsplit(' ', 1)
rsplit(t) ==
    IF LastSpace(t) = 0 THEN <<t>>
    ELSE <<SubSeq(t, 1, LastSpace(t) - 1), SubSeq(t, LastSpace(t) + 1, Len(t))>>

\* ValueX with a gap of 3 + 5 after the label
ValueXWithGap(labelWidth) == LeftMargin + 5 + labelWidth + 3

\* where a row's value goes: 3 + 5 + label.size[0]
ValueX(labelWidth) == 3 + 5 + labelWidth

\* NextRowY stepping by the glyph height only
NextRowYByGlyph(py) == py + GlyphRows

\* y += 12
NextRowY(py) == py + RowStep

MaxWord == 8
MaxFormats == 3

Word(n) == [i \in 1..n |-> "M"]

RECURSIVE JoinWords(_)
JoinWords(ws) ==
    IF Len(ws) = 1 THEN Word(ws[1])
    ELSE Word(ws[1]) \o <<" ">> \o JoinWords(Tail(ws))

\* names of one to three words, among them names too wide for one line,
\* with and without a space, and names with an empty word
WordLens == {0, 1, MaxWord - 1}
Names ==
    { JoinWords(ws) : ws \in UNION { [1..k -> WordLens] : k \in 1..3 } }
    \cup { Word(2 * MaxWord - 1),
           <<"A", "n", "o", "n", "y", "m", "o", "u", "s">>,
           <<"H", "o", "t", " ", "P", "i", "n", "k">> }

\* the choices of --formats, in the order argparse lists them
FormatOrder == <<"empty", "hex", "#hex", "rgb", "hsv", "hsl", "cmyk">>

\* format lists: n entries from entry k on, in that order, in the reverse
\* order, or n times the same entry
FormatLists ==
    UNION { { [i \in 1..n |-> FormatOrder[((k + i - 2) % 7) + 1]],
              [i \in 1..n |-> FormatOrder[((k - i + 7 * n) % 7) + 1]],
              [i \in 1..n |-> FormatOrder[k]] }
            : <<k, n>> \in (1..7) \X (1..MaxFormats) }

DecoInit ==
    /\ name \in Names
    /\ formats \in FormatLists
    /\ decoPc = "name" /\ y = 0 /\ row = 0 /\ img = <<>>
    /\ CmykIdle /\ TextIdle /\ ArgIdle /\ ImageIdle

\* lines 169-183: the badge, its border and the name on one or two lines
DrawName ==
    /\ decoPc = "name"
    /\ LET nm    == generate_text(name)
           parts == rsplit(name)
           t1    == generate_text(parts[1])
           t2    == generate_text(parts[2])
           y0    == nm.size[2]
       IN  IF nm.status # "ok"
           THEN decoPc' = nm.status /\ img' = <<Border>> /\ y' = y
           ELSE IF nm.size[1] <= MaxNameWidth
           THEN /\ img' = <<Border, Drawn("name", "", name, LeftMargin, y0, nm.size[1])>>
                /\ y' = y0 /\ decoPc' = "rows"
           ELSE IF Len(parts) # 2
           THEN decoPc' = "ValueError" /\ img' = <<Border>> /\ y' = y0
           ELSE IF t1.status # "ok"
           THEN decoPc' = t1.status /\ img' = <<Border>> /\ y' = y0
           ELSE IF t2.status # "ok"
           THEN /\ decoPc' = t2.status /\ y' = NextRowY(y0)
                /\ img' = <<Border, Drawn("name", "", parts[1], LeftMargin, y0, t1.size[1])>>
           ELSE /\ decoPc' = "rows" /\ y' = NextRowY(y0)
                /\ img' = <<Border,
                            Drawn("name", "", parts[1], LeftMargin, y0, t1.size[1]),
                            Drawn("name", "", parts[2], LeftMargin, NextRowY(y0), t2.size[1])>>
    /\ UNCHANGED <<name, formats, row, cmykVars, textVars, argVars, imageVars>>

\* lines 203-208: one turn of the loop over self.formats
DrawRow ==
    /\ decoPc = "rows" /\ row < Len(formats)
    /\ LET key   == formats[row + 1]
           label == generate_text(RowLabel(key))
           py    == NextRowY(y)
       IN  /\ y' = py
           /\ img' = img \o
                <<Drawn("label", key, RowLabel(key), LeftMargin, py, label.size[1]),
                  Drawn("value", key, <<>>, ValueX(label.size[1]), py, 0)>>
    /\ row' = row + 1
    /\ UNCHANGED <<name, formats, decoPc, cmykVars, textVars, argVars, imageVars>>

\* line 210: return img
ReturnBadge ==
    /\ decoPc = "rows" /\ row = Len(formats)
    /\ decoPc' = "done"
    /\ UNCHANGED <<name, formats, y, row, img, cmykVars, textVars, argVars, imageVars>>

DecoNext == DrawName \/ DrawRow \/ ReturnBadge

SpecDeco == DecoInit /\ [][DecoNext]_vars

NameLines == Cardinality({ j \in 1..Len(img) : img[j].kind = "name" })

HasSpace(t) == \E i \in 1..Len(t) : t[i] = " "

\* C3 as first stated: the label of every row is composited at x = 8 and
\* its value at x = 8 + 5 + labelWidth + 3, at the same y.
ValueEightPastLabel ==
    \A j \in 1..Len(img) :
        img[j].kind = "label" =>
            /\ img[j].x = 8
            /\ j < Len(img) /\ img[j + 1].kind = "value"
            /\ img[j + 1].y = img[j].y
            /\ img[j + 1].x = 8 + 5 + img[j].w + 3

\* C3, amended: the label of every row is composited at x = 8 and its value
\* at x = 3 + 5 + labelWidth, the label bitmap's right edge, at the same y.
ValueAtLabelEdge ==
    \A j \in 1..Len(img) :
        img[j].kind = "label" =>
            /\ img[j].x = 8
            /\ img[j].w = SumGlyphWidth(img[j].text) + Len(img[j].text) - 1
            /\ j < Len(img) /\ img[j + 1].kind = "value"
            /\ img[j + 1].key = img[j].key
            /\ img[j + 1].y = img[j].y
            /\ img[j + 1].x = img[j].x + img[j].w

ValueAtLabelEdgeWitness ==
    /\ decoPc = "done" /\ Len(formats) = 3
    /\ \E j \in 1..Len(img) :
          /\ img[j].kind = "label" /\ img[j].key = "cmyk"
          /\ img[j + 1].kind = "value" /\ img[j + 1].x = 8 + img[j].w

\* C4: once the name is drawn, a (non-empty) name at most 112 pixels wide
\* is on one line at x = 8; a wider name with a space is on two lines, split
\* at its last space, both at x = 8 and 12 pixels apart; a wider name
\* without a space raised an error.
NameOnOneOrTwoLines ==
    (decoPc # "name" /\ name # <<>>) =>
        LET w == SumLen(name) - 1
        IN  /\ w <= 112 =>
                /\ decoPc \in {"rows", "done"} /\ NameLines = 1
                /\ img[2].kind = "name" /\ img[2].text = name /\ img[2].x = 8
            /\ (w > 112 /\ HasSpace(name)) =>
                /\ decoPc \in {"rows", "done"} /\ NameLines = 2
                /\ img[2].kind = "name" /\ img[3].kind = "name"
                /\ img[2].text \o <<" ">> \o img[3].text = name
                /\ ~HasSpace(img[3].text)
                /\ img[2].x = 8 /\ img[3].x = 8
                /\ img[3].y = img[2].y + 12
            /\ (w > 112 /\ ~HasSpace(name)) =>
                decoPc \notin {"rows", "done"}

\* C9: the rows drawn so far are the first entries of formats, one row an
\* entry and in list order; row i is at y = y0 + 12 * i, y0 being 8 under a
\* one-line name and 20 under a two-line name; the badge is returned only
\* with every entry drawn.
RowsInListOrder ==
    decoPc \in {"rows", "done"} =>
        LET y0 == IF NameLines = 2 THEN 20 ELSE 8
        IN  /\ NameLines \in {1, 2}
            /\ Len(img) = 1 + NameLines + 2 * row
            /\ row <= Len(formats)
            /\ decoPc = "done" => row = Len(formats)
            /\ \A i \in 1..row :
                  LET label == img[1 + NameLines + 2 * i - 1]
                      value == img[1 + NameLines + 2 * i]
                  IN  /\ label.kind = "label" /\ value.kind = "value"
                      /\ label.key = formats[i] /\ value.key = formats[i]
                      /\ label.y = y0 + 12 * i /\ value.y = y0 + 12 * i

RowsInListOrderWitness ==
    /\ decoPc = "done" /\ NameLines = 2 /\ row = 3
    /\ formats[1] = "empty" /\ formats[2] = "empty"
    /\ img[Len(img)].y = 20 + 36

RowsInListOrderWitnessOneLine ==
    /\ decoPc = "done" /\ NameLines = 1 /\ row = 3
    /\ formats[1] = "cmyk" /\ formats[2] = "hsl" /\ formats[3] = "hsv"
    /\ img[Len(img)].y = 8 + 36

(***************************************************************************)
(* Strings: str(int), int(str), str.lower, the regular expressions         *)
(***************************************************************************)
Digits == <<"0", "1", "2", "3", "4", "5", "6", "7", "8", "9">>
HexLetters == <<"a", "b", "c", "d", "e", "f">>
UpperHexLetters == <<"A", "B", "C", "D", "E", "F">>

IsDigit(c) == \E i \in 1..10 : Digits[i] = c
DigitValue(c) == (CHOOSE i \in 1..10 : Digits[i] = c) - 1

IsHexDigit(c) ==
    IsDigit(c) \/ \E i \in 1..6 : HexLetters[i] = c \/ UpperHexLetters[i] = c

HexValue(c) ==
    IF IsDigit(c) THEN DigitValue(c)
    ELSE 9 + (CHOOSE i \in 1..6 : HexLetters[i] = c \/ UpperHexLetters[i] = c)

\* str(n) for n >= 0
RECURSIVE Str(_)
Str(n) ==
    IF n < 10 THEN <<Digits[n + 1]>>
    ELSE Str(n \div 10) \o <<Digits[(n % 10) + 1]>>

AllDigits(t) == t # <<>> /\ \A i \in 1..Len(t) : IsDigit(t[i])

RECURSIVE DecimalValue(_)
DecimalValue(t) ==
    IF t = <<>> THEN 0
    ELSE 10 * DecimalValue(SubSeq(t, 1, Len(t) - 1)) + DigitValue(t[Len(t)])

RECURSIVE HexadecimalValue(_)
HexadecimalValue(t) ==
    IF t = <<>> THEN 0
    ELSE 16 * HexadecimalValue(SubSeq(t, 1, Len(t) - 1)) + HexValue(t[Len(t)])

\* str.strip()
RECURSIVE Strip(_)
Strip(t) ==
    IF t = <<>> THEN t
    ELSE IF Head(t) = " " THEN Strip(Tail(t))
    ELSE IF t[Len(t)] = " " THEN Strip(SubSeq(t, 1, Len(t) - 1))
    ELSE t

\* int(s): surrounding whitespace is skipped, anything but decimal digits
\* between is a ValueError (-1 here)
PyInt(t) == IF AllDigits(Strip(t)) THEN DecimalValue(Strip(t)) ELSE -1

\* the pieces of t between the separators in seps
RECURSIVE SplitAt(_, _)
SplitAt(t, seps) ==
    IF \E i \in 1..Len(t) : t[i] \in seps
    THEN LET i == CHOOSE i \in 1..Len(t) :
                    t[i] \in seps /\ \A j \in 1..(i - 1) : t[j] \notin seps
         IN  <<SubSeq(t, 1, i - 1)>> \o SplitAt(SubSeq(t, i + 1, Len(t)), seps)
    ELSE <<t>>

LowerLetters == <<"a", "b", "c", "d", "e", "f", "g", "h", "i", "j", "k", "l", "m",
                  "n", "o", "p", "q", "r", "s", "t", "u", "v", "w", "x", "y", "z">>
UpperLetters == <<"A", "B", "C", "D", "E", "F", "G", "H", "I", "J", "K", "L", "M",
                  "N", "O", "P", "Q", "R", "S", "T", "U", "V", "W", "X", "Y", "Z">>

LowerChar(c) ==
    IF \E i \in 1..26 : UpperLetters[i] = c
    THEN LowerLetters[CHOOSE i \in 1..26 : UpperLetters[i] = c] ELSE c

UpperChar(c) ==
    IF \E i \in 1..26 : LowerLetters[i] = c
    THEN UpperLetters[CHOOSE i \in 1..26 : LowerLetters[i] = c] ELSE c

\* str.lower()
Lower(t) == [i \in 1..Len(t) |-> LowerChar(t[i])]

\* str.capitalize()
Capitalize(t) ==
    [i \in 1..Len(t) |-> IF i = 1 THEN UpperChar(t[i]) ELSE LowerChar(t[i])]

\* str.startswith('y')
StartsWithY(t) == t # <<>> /\ t[1] = "y"

(***************************************************************************)
(* get_options.resolution, Wallpaper.generate_image                        *)
(***************************************************************************)
\* resolution_re.fullmatch(arg): \s*(\d+)\s*[x:]\s*(\d+)\s*, the two groups
\* or <<>>
ResolutionGroups(t) ==
    LET parts == SplitAt(t, {"x", ":"})
    IN  IF Len(parts) = 2 /\ AllDigits(Strip(parts[1])) /\ AllDigits(Strip(parts[2]))
        THEN <<Strip(parts[1]), Strip(parts[2])>>
        ELSE <<>>

\* MinDimension letting a 100 pixel canvas through
MinDimensionHundred == 150 - 50

MinDimension == 150

\* get_options.resolution: the resolution, or <<>> for an ArgumentTypeError
ParsedResolution(t) ==
    LET groups == ResolutionGroups(t)
        res    == <<PyInt(groups[1]), PyInt(groups[2])>>
    IN  IF groups = <<>> THEN <<>>
        ELSE IF res[1] < MinDimension \/ res[2] < MinDimension THEN <<>>
        ELSE res

\* Round truncating instead
RoundDown(n, d) == n \div d

\* round(n / d) for a power of two d, where n / d is exact: to the nearest
\* integer, a tie to the even one
Round(n, d) ==
    LET q == n \div d
        r == n % d
    IN  IF 2 * r < d THEN q
        ELSE IF 2 * r > d THEN q + 1
        ELSE IF q % 2 = 0 THEN q ELSE q + 1

\* decor_size = 128 * max(round(smaller / 4 / 128), 1)
DecorSize(smaller) == BadgeSize * Max2(Round(smaller, 4 * BadgeSize), 1)

\* ((resolution[0] - decor_size) // 2, (resolution[1] - decor_size) // 2)
Centered(res, size) == <<(res[1] - size) \div 2, (res[2] - size) \div 2>>

\* Confirmed without .lower()
ConfirmedCaseSensitive(force, t) == force \/ StartsWithY(t)

\* self.y or input(...).lower().startswith('y')
Confirmed(force, t) == force \/ StartsWithY(Lower(t))

MaxScale == 4

Widths == {100, 150, 1080, 1920, 4000}
Heights ==
    {100, 149, 150, 1080}
    \cup UNION { {512 * n, 512 * n + 255, 512 * n + 256, 512 * n + 257}
                 : n \in 0..MaxScale }

ResolutionArgs ==
    { Str(w) \o <<"x">> \o Str(h) : <<w, h>> \in Widths \X Heights }
    \cup { Str(h) \o <<" ", ":", " ">> \o Str(w) : <<w, h>> \in {1080, 1920} \X Heights }
    \cup { <<"1", "9", "2", "0">>, <<"x", "1", "0", "8", "0">>, <<"a", "x", "b">> }

Answers == { <<>>, <<"y">>, <<"Y", "E", "S">>, <<"n", "o">>, <<" ", "y">> }

ImageInit ==
    /\ resArg \in ResolutionArgs
    /\ decorStatus \in {"ok", "ValueError"}
    /\ output \in {"absent", "old file", "directory"}
    /\ parentDir \in (IF output = "absent" THEN BOOLEAN ELSE {TRUE})
    /\ yes \in BOOLEAN
    /\ answer \in Answers
    /\ resolution = <<0, 0>> /\ imagePc = "args"
    /\ decor_size = 0 /\ offset = <<0, 0>>
    /\ CmykIdle /\ TextIdle /\ DecoIdle /\ ArgIdle

\* lines 60-71
ParseResolution ==
    /\ imagePc = "args"
    /\ IF ParsedResolution(resArg) = <<>>
       THEN imagePc' = "ArgumentTypeError" /\ resolution' = resolution
       ELSE imagePc' = "compose" /\ resolution' = ParsedResolution(resArg)
    /\ UNCHANGED <<resArg, decorStatus, output, parentDir, yes, answer,
                   decor_size, offset, cmykVars, textVars, decoVars, argVars>>

\* lines 213-222: the canvas, the badge scaled and centred; a raising
\* __generate_decoration ends the call, and alpha_composite refuses a
\* negative destination
Compose ==
    /\ imagePc = "compose"
    /\ LET smaller == Min2(resolution[1], resolution[2])
           size    == DecorSize(smaller)
           dest    == Centered(resolution, size)
       IN  /\ decor_size' = size
           /\ IF decorStatus # "ok"
              THEN imagePc' = decorStatus /\ offset' = offset
              ELSE IF dest[1] < 0 \/ dest[2] < 0
              THEN imagePc' = "ValueError" /\ offset' = dest
              ELSE imagePc' = "persist" /\ offset' = dest
    /\ UNCHANGED <<resArg, resolution, decorStatus, output, parentDir, yes,
                   answer, cmykVars, textVars, decoVars, argVars>>

\* lines 224-226
SaveNew ==
    /\ imagePc = "persist" /\ output = "absent"
    /\ parentDir' = TRUE
    /\ output' = "image"
    /\ imagePc' = "saved new"
    /\ UNCHANGED <<resArg, resolution, decorStatus, yes, answer, decor_size,
                   offset, cmykVars, textVars, decoVars, argVars>>

\* lines 227-230
Overwrite ==
    /\ imagePc = "persist" /\ output = "old file"
    /\ IF Confirmed(yes, answer)
       THEN output' = "image" /\ imagePc' = "overwritten"
       ELSE output' = output /\ imagePc' = "kept"
    /\ UNCHANGED <<resArg, resolution, decorStatus, parentDir, yes, answer,
                   decor_size, offset, cmykVars, textVars, decoVars, argVars>>

\* lines 231-232
RaiseNotAFile ==
    /\ imagePc = "persist" /\ output \notin {"absent", "old file"}
    /\ imagePc' = "IOError"
    /\ UNCHANGED <<resArg, resolution, decorStatus, output, parentDir, yes,
                   answer, decor_size, offset, cmykVars, textVars, decoVars,
                   argVars>>

ImageNext ==
    ParseResolution \/ Compose \/ SaveNew \/ Overwrite \/ RaiseNotAFile

SpecImage == ImageInit /\ [][ImageNext]_vars

\* where generate_image is once the badge size is computed, and once the
\* badge is composited
Composed == {"persist", "saved new", "overwritten", "kept", "IOError", "ValueError"}
Placed == {"persist", "saved new", "overwritten", "kept", "IOError"}

\* C6: the badge size is 128 * max(round(min(resolution) / 4 / 128), 1):
\* a multiple of 128, at least 128, the multiple nearest to a quarter of the
\* smaller dimension (of two equally near, the even one); 256 for 1920x1080.
DecorSizeIsRoundedQuarter ==
    imagePc \in Composed =>
        LET smaller == Min2(resolution[1], resolution[2])
            n       == decor_size \div 128
        IN  /\ resolution[1] >= 150 /\ resolution[2] >= 150
            /\ decor_size = 128 * n /\ n >= 1 /\ decor_size >= 128
            /\ \E m \in 0..(smaller \div 512 + 1) :
                  /\ n = Max2(m, 1)
                  /\ \/ 2 * (smaller - 512 * m) < 512 /\ 2 * (512 * m - smaller) < 512
                     \/ (2 * (smaller - 512 * m) = 512 \/ 2 * (512 * m - smaller) = 512)
                        /\ m % 2 = 0
            /\ resolution = <<1920, 1080>> => decor_size = 256

DecorSizeWitness ==
    imagePc = "persist" /\ resolution = <<1920, 1080>> /\ decor_size = 256

DecorSizeTieWitness ==
    imagePc = "persist" /\ resolution[2] = 1280 /\ decor_size = 256

\* C10: with both dimensions at least 150 the scaled badge lies inside the
\* canvas: the offset ((w - decor_size) // 2, (h - decor_size) // 2) is not
\* negative and offset + decor_size does not pass the canvas; compositing is
\* never refused; the offset for 1920x1080 is (832, 412).
BadgeInsideCanvas ==
    /\ imagePc \in Placed =>
          /\ \A i \in 1..2 :
                /\ 2 * offset[i] <= resolution[i] - decor_size
                /\ 2 * offset[i] >= resolution[i] - decor_size - 1
                /\ offset[i] >= 0
                /\ offset[i] + decor_size <= resolution[i]
          /\ resolution = <<1920, 1080>> => offset = <<832, 412>>
    /\ imagePc = "ValueError" => decorStatus = "ValueError"

BadgeInsideCanvasWitness ==
    imagePc = "persist" /\ resolution = <<1920, 1080>> /\ offset = <<832, 412>>

BadgeFillsCanvasWitness ==
    imagePc = "persist" /\ resolution[2] = 150 /\ offset[2] = 11

\* C7: persisting follows the output policy: an absent path gets its parent
\* directories and the image; an existing regular file gets the image only
\* when overwriting is forced or the answer starts with y or Y, and is left
\* as it was otherwise; anything else at the path raises IOError and stays;
\* no other step writes.
OutputPolicy ==
    [][ /\ imagePc # "persist" => output' = output
        /\ imagePc = "persist" =>
              /\ output = "absent" =>
                    output' = "image" /\ parentDir' /\ imagePc' = "saved new"
              /\ output = "old file" =>
                    IF yes \/ (answer # <<>> /\ answer[1] \in {"y", "Y"})
                    THEN output' = "image"
                    ELSE output' = "old file" /\ imagePc' = "kept"
              /\ output = "directory" =>
                    output' = "directory" /\ imagePc' = "IOError" ]_vars

OutputPolicyWitness ==
    /\ imagePc = "overwritten" /\ output = "image"
    /\ ~yes /\ answer = <<"Y", "E", "S">>

OutputKeptWitness ==
    imagePc = "kept" /\ output = "old file" /\ ~yes /\ answer = <<" ", "y">>

(***************************************************************************)
(* get_options.color                                                       *)
(***************************************************************************)
\* data.color_to_hex and data.pretty_names, two of their entries
ColorToHex(n) ==
    CASE n = <<"r", "e", "d">> -> <<"f", "f", "0", "0", "0", "0">>
      [] n = <<"h", "o", "t", "p", "i", "n", "k">> -> <<"f", "f", "0", "2", "8", "d">>
      [] OTHER -> <<>>

PrettyName(n) ==
    IF n = <<"h", "o", "t", "p", "i", "n", "k">>
    THEN <<"H", "o", "t", " ", "P", "i", "n", "k">>
    ELSE Capitalize(n)

\* normalized(s): ''.join(s.split()).lower()
normalized(t) == Lower(SelectSeq(t, LAMBDA c : c # " "))

\* hex_re.fullmatch(arg): \s*#?([\da-f]{6}|[\da-f]{3})\s*, group 1 or <<>>
HexGroup(t) ==
    LET u == Strip(t)
        d == IF u # <<>> /\ Head(u) = "#" THEN Tail(u) ELSE u
    IN  IF Len(d) \in {3, 6} /\ \A i \in 1..Len(d) : IsHexDigit(d[i])
        THEN d ELSE <<>>

\* rgb_re.fullmatch(arg): \s*(\d+)\s*,\s*(\d+)\s*,\s*(\d+)\s*\s*, the groups
\* 0 to 3 (group 0 is the whole match) or <<>>
RgbGroups(t) ==
    LET parts == SplitAt(t, {","})
    IN  IF Len(parts) = 3 /\ \A i \in 1..3 : AllDigits(Strip(parts[i]))
        THEN <<t, Strip(parts[1]), Strip(parts[2]), Strip(parts[3])>>
        ELSE <<>>

\* tuple(int(arg[le//3*i:le//3*(i+1)], 16) for i in range(3))
parse_hex(t) ==
    LET le == Len(t)
    IN  [i \in 1..3 |->
            HexadecimalValue(SubSeq(t, (le \div 3) * (i - 1) + 1, (le \div 3) * i))]

Color(c, n) == [status |-> "ok", rgb |-> c, name |-> n]

Raised(exception, message) ==
    [status |-> exception, rgb |-> <<>>, name |-> message]

\* the groups handed to int_tuple: group(0), group(1), group(2)
IntTupleGroups(groups) == <<groups[1], groups[2], groups[3]>>

color(t) ==
    LET hex_groups == HexGroup(t)
        rgb_groups == RgbGroups(t)
        ints       == [i \in 1..3 |-> PyInt(IntTupleGroups(rgb_groups)[i])]
        nm         == normalized(t)
    IN  IF hex_groups # <<>>
        THEN Color(parse_hex(hex_groups), PrettyName(<<"a", "n", "o", "n", "y", "m", "o", "u", "s">>))
        ELSE IF rgb_groups # <<>>
        THEN IF \E i \in 1..3 : ints[i] = -1
             THEN Raised("ValueError", <<>>)
             ELSE IF ~ \A i \in 1..3 : 0 <= ints[i] /\ ints[i] <= 255
             THEN Raised("ArgumentTypeError", "invalid RGB values")
             ELSE Color(ints, PrettyName(<<"a", "n", "o", "n", "y", "m", "o", "u", "s">>))
        ELSE IF ColorToHex(nm) = <<>>
        THEN Raised("ArgumentTypeError", "is not a color")
        ELSE Color(parse_hex(ColorToHex(nm)), PrettyName(nm))

ArgComponents == {0, 7, 141, 255, 256}

RgbArg(r, g, b) == Str(r) \o <<",">> \o Str(g) \o <<",">> \o Str(b)

ColorArgs ==
    { RgbArg(c[1], c[2], c[3]) : c \in ArgComponents \X ArgComponents \X ArgComponents }
    \cup { <<"#", "f", "f", "0", "2", "8", "d">>, <<"F", "0", "a">>,
           <<"r", "e", "d">>, <<"H", "o", "t", " ", "P", "i", "n", "k">>,
           <<"n", "o", "p", "e">>, <<" ", "1", " ", ",", "2", ",", "3">> }

ArgInit ==
    /\ arg \in ColorArgs
    /\ argPc = "call" /\ parsed = [status |-> "none"]
    /\ CmykIdle /\ TextIdle /\ DecoIdle /\ ImageIdle

\* lines 30-54
ParseColor ==
    /\ argPc = "call"
    /\ parsed' = color(arg)
    /\ argPc' = "done"
    /\ UNCHANGED <<arg, cmykVars, textVars, decoVars, imageVars>>

ArgNext == ParseColor

SpecArg == ArgInit /\ [][ArgNext]_vars

\* C8: an "R,G,B" argument with every component in 0..255 becomes the
\* colour (R,G,B) named "Anonymous"; one with a component above 255 is
\* refused as 'invalid RGB values'.
RgbArgBecomesColor ==
    argPc = "done" =>
        \A c \in ArgComponents \X ArgComponents \X ArgComponents :
            arg = RgbArg(c[1], c[2], c[3]) =>
                IF \A i \in 1..3 : c[i] <= 255
                THEN parsed = Color(c, <<"A", "n", "o", "n", "y", "m", "o", "u", "s">>)
                ELSE parsed = Raised("ArgumentTypeError", "invalid RGB values")

(***************************************************************************)
(* The whole program: any one of its components at work                    *)
(***************************************************************************)
Init == CmykInit \/ TextInit \/ DecoInit \/ ArgInit \/ ImageInit

Next == CmykNext \/ TextNext \/ DecoNext \/ ArgNext \/ ImageNext

Spec == Init /\ [][Next]_vars

=============================================================================
